---- MODULE Spec2Model ----
(***************************************************************************)
(* Model of sloggers' syslog retry drain (src/src/syslog/retry.rs).        *)
(*                                                                         *)
(* Retry wraps a fallible drain constructor (new_drain).  Retry::log uses  *)
(* the current drain when there is one; when a drain fails it is dropped,  *)
(* and a new one is constructed at most once per RETRY_TIME.  Records that *)
(* cannot be delivered are counted in dropped_logs, and the count is       *)
(* reported through the first drain that can be constructed again.         *)
(*                                                                         *)
(* Time is in milliseconds.  Drains are identified by the number of the    *)
(* new_drain call that built them; 0 stands for Option::None.              *)
(***************************************************************************)
EXTENDS Integers, Sequences, FiniteSets, TLC

\* ---- bounds of the model -------------------------------------------------
\* dropped_logs is a usize; the model keeps the saturating arithmetic but
\* scales the width down so that the ceiling is reachable.
USIZE_MAX == 3
\* the clock advances in steps of TickStep ms, up to MaxTime ms
TickStep == 25
MaxTime == 150
\* number of Retry::log calls explored
MaxCalls == 6
\* number of callers that may be inside Retry::log at once
NumCallers == 2
\* number of SyslogBuilder::build calls explored
MaxBuilds == 3
\* number of Retry::log calls explored together with the test helpers
MaxFudgedCalls == 3

\* ---- program constants ---------------------------------------------------
RETRY_TIME == 50

\* the hour of fudge_timeout_long (Duration::from_secs(3600)), in ms
FUDGE_LONG == 3600000

None == 0

VARIABLES
    wrapper,        \* "absent" before Retry::new, then "built" or "failed"
    current_drain,  \* RetryState::current_drain: None or the drain's id
    dropped_logs,   \* RetryState::dropped_logs
    last_try_time,  \* RetryState::last_try_time
    now,            \* the monotonic clock read by Instant::now()
    ctor_count,     \* number of new_drain invocations so far
    ctor_time,      \* clock reading at the latest new_drain invocation
    calls,          \* number of Retry::log calls so far
    received,       \* original records accepted by some drain
    reported,       \* sum of the count fields of accepted accounting records
    clipped,        \* TRUE once a saturating_add was cut off at USIZE_MAX
    log_err,        \* TRUE once a log through the current drain has failed
    last,           \* what the latest operation did: its result and the
                    \* calls it made on the drains and on new_drain, in order
    failed_drains,  \* the drains that have returned an error from log
    borrow,         \* the RefCell's borrow flag: TRUE while state is borrowed
    pc,             \* where each caller is in Retry::log
    healthy,        \* TRUE once drains and new_drain have stopped failing
    destination,    \* SyslogBuilder::destination
    deferred_error, \* SyslogBuilder::deferred_error
    build_count,    \* number of SyslogBuilder::build calls so far
    build_ctor,     \* number of drain constructions started by build
    last_builder_op \* what the latest SyslogBuilder method did

vars == <<wrapper, current_drain, dropped_logs, last_try_time, now,
          ctor_count, ctor_time, calls, received, reported, clipped, log_err,
          last, failed_drains, borrow, pc, healthy,
          destination, deferred_error, build_count, build_ctor,
          last_builder_op>>

\* the fields and the observers of the SyslogBuilder
builder_vars == <<destination, deferred_error, build_count, build_ctor,
                  last_builder_op>>

\* the Retry, its clock, its callers and its collaborators
retry_vars == <<wrapper, current_drain, dropped_logs, last_try_time, now,
                ctor_count, ctor_time, calls, received, reported, clipped,
                log_err, last, failed_drains, borrow, pc, healthy>>

Callers == 1..NumCallers

\* ---- RetryState ----------------------------------------------------------

\* an addition that wraps around at the width of usize
saturating_add_wrapping(a, b) == (a + b) % (USIZE_MAX + 1)

\* usize::saturating_add
saturating_add(a, b) == IF a + b > USIZE_MAX THEN USIZE_MAX ELSE a + b

\* RetryState::incr_dropped_logs
incr_dropped_logs(s) ==
    [s EXCEPT !.dropped_logs = saturating_add(s.dropped_logs, 1),
              !.clipped = s.clipped \/ s.dropped_logs + 1 > USIZE_MAX]

\* the distance between the two instants, whichever comes first
saturating_duration_since_abs(t, earlier) ==
    IF t >= earlier THEN t - earlier ELSE earlier - t

\* the two instants taken the wrong way round
saturating_duration_since_swapped(t, earlier) ==
    IF earlier >= t THEN earlier - t ELSE 0

\* Instant::saturating_duration_since
saturating_duration_since(t, earlier) == IF t >= earlier THEN t - earlier ELSE 0

\* a wait that doubles once more than one record has been dropped
should_try_again_backoff(s, t) ==
    ~(saturating_duration_since(t, s.last_try_time)
        < (IF s.dropped_logs > 1 THEN 2 * RETRY_TIME ELSE RETRY_TIME))

\* RetryState::should_try_again: the returned flag
should_try_again(s, t) == ~(saturating_duration_since(t, s.last_try_time) < RETRY_TIME)

\* should_try_again resetting the timeout whatever it answers
reset_timeout_always(s, t) == [s EXCEPT !.last_try_time = t]

\* should_try_again forgetting to reset the timeout
reset_timeout_forgotten(s, t) == s

\* RetryState::should_try_again: the state it leaves
reset_timeout(s, t) ==
    IF should_try_again(s, t) THEN [s EXCEPT !.last_try_time = t] ELSE s

\* ---- calls made on the collaborators --------------------------------------
\* op is "new" (new_drain), "orig" (drain.log of the caller's record) or
\* "acct" (drain.log of the dropped-messages record, carrying count)
Call(op, drain, count, ok) == [op |-> op, drain |-> drain, count |-> count, ok |-> ok]

\* a return from Retry::log: always Ok(()), the error type is slog::Never
Return(s, ev) == [state |-> s, events |-> ev, ret |-> "Ok"]

\* ---- Retry::log ------------------------------------------------------------
\* in.cur, in.new, in.acct, in.orig: whether the current drain's log, the
\* new_drain call, the candidate's log of the accounting record and the
\* candidate's log of the original record succeed

\* a new drain kept although it refused the original record
send_original_keeping(s, ev, drain, in) ==
    IF ~in.orig
        THEN Return([incr_dropped_logs(s) EXCEPT !.current_drain = drain],
                    Append(ev, Call("orig", drain, 0, FALSE)))
        ELSE Return([s EXCEPT !.current_drain = drain],
                    Append(ev, Call("orig", drain, 0, TRUE)))

\* the original record lost on the new drain without being counted
send_original_uncounted(s, ev, drain, in) ==
    IF ~in.orig
        THEN Return(s, Append(ev, Call("orig", drain, 0, FALSE)))
        ELSE Return([s EXCEPT !.current_drain = drain],
                    Append(ev, Call("orig", drain, 0, TRUE)))

\* lines 134-143: send the original record through the new drain
send_original(s, ev, drain, in) ==
    IF ~in.orig
        THEN Return(incr_dropped_logs(s), Append(ev, Call("orig", drain, 0, FALSE)))
        ELSE Return([s EXCEPT !.current_drain = drain],
                    Append(ev, Call("orig", drain, 0, TRUE)))

\* an accounting record sent also when nothing was dropped
send_dropped_count_always(s, ev, drain, in) ==
    IF ~in.acct
        THEN Return(incr_dropped_logs(s),
                    Append(ev, Call("acct", drain, s.dropped_logs, FALSE)))
        ELSE send_original([s EXCEPT !.dropped_logs = 0],
                           Append(ev, Call("acct", drain, s.dropped_logs, TRUE)),
                           drain, in)

\* the counter left as it is after the report went through
send_dropped_count_stale(s, ev, drain, in) ==
    IF s.dropped_logs # 0
        THEN IF ~in.acct
                THEN Return(incr_dropped_logs(s),
                            Append(ev, Call("acct", drain, s.dropped_logs, FALSE)))
                ELSE send_original(s,
                                   Append(ev, Call("acct", drain, s.dropped_logs, TRUE)),
                                   drain, in)
        ELSE send_original(s, ev, drain, in)

\* the reported count taking in the record being logged
send_dropped_count_off_by_one(s, ev, drain, in) ==
    IF s.dropped_logs # 0
        THEN IF ~in.acct
                THEN Return(incr_dropped_logs(s),
                            Append(ev, Call("acct", drain, s.dropped_logs + 1, FALSE)))
                ELSE send_original([s EXCEPT !.dropped_logs = 0],
                                   Append(ev, Call("acct", drain, s.dropped_logs + 1, TRUE)),
                                   drain, in)
        ELSE send_original(s, ev, drain, in)

\* a failed report ignored: the original record is sent all the same
send_dropped_count_adopting(s, ev, drain, in) ==
    IF s.dropped_logs # 0
        THEN IF ~in.acct
                THEN send_original(s,
                                   Append(ev, Call("acct", drain, s.dropped_logs, FALSE)),
                                   drain, in)
                ELSE send_original([s EXCEPT !.dropped_logs = 0],
                                   Append(ev, Call("acct", drain, s.dropped_logs, TRUE)),
                                   drain, in)
        ELSE send_original(s, ev, drain, in)

\* the counter reset before the report is known to have gone through
send_dropped_count_early_reset(s, ev, drain, in) ==
    IF s.dropped_logs # 0
        THEN IF ~in.acct
                THEN Return(incr_dropped_logs([s EXCEPT !.dropped_logs = 0]),
                            Append(ev, Call("acct", drain, s.dropped_logs, FALSE)))
                ELSE send_original([s EXCEPT !.dropped_logs = 0],
                                   Append(ev, Call("acct", drain, s.dropped_logs, TRUE)),
                                   drain, in)
        ELSE send_original(s, ev, drain, in)

\* lines 112-132: report the dropped messages through the new drain
send_dropped_count(s, ev, drain, in) ==
    IF s.dropped_logs # 0
        THEN IF ~in.acct
                THEN Return(incr_dropped_logs(s),
                            Append(ev, Call("acct", drain, s.dropped_logs, FALSE)))
                ELSE send_original([s EXCEPT !.dropped_logs = 0],
                                   Append(ev, Call("acct", drain, s.dropped_logs, TRUE)),
                                   drain, in)
        ELSE send_original(s, ev, drain, in)

\* a failed new_drain call that is not counted as a dropped record
try_new_drain_uncounted(s, ev, id, in) ==
    IF in.new
        THEN send_dropped_count(s, Append(ev, Call("new", id, 0, TRUE)), id, in)
        ELSE Return(s, Append(ev, Call("new", None, 0, FALSE)))

\* new_drain's error handed to the caller of log instead of being counted
try_new_drain_propagating(s, ev, id, in) ==
    IF in.new
        THEN send_dropped_count(s, Append(ev, Call("new", id, 0, TRUE)), id, in)
        ELSE [state |-> s, events |-> Append(ev, Call("new", None, 0, FALSE)),
              ret |-> "Err"]

\* lines 100-110: construct a new drain
try_new_drain(s, ev, id, in) ==
    IF in.new
        THEN send_dropped_count(s, Append(ev, Call("new", id, 0, TRUE)), id, in)
        ELSE Return(incr_dropped_logs(s), Append(ev, Call("new", None, 0, FALSE)))

\* a record dropped inside the retry interval without being counted
recover_silent(s, ev, t, id, in) ==
    IF ~should_try_again(s, t)
        THEN Return(reset_timeout(s, t), ev)
        ELSE try_new_drain(reset_timeout(s, t), ev, id, in)

\* lines 93-98: is it time to try again?
recover(s, ev, t, id, in) ==
    IF ~should_try_again(s, t)
        THEN Return(incr_dropped_logs(reset_timeout(s, t)), ev)
        ELSE try_new_drain(reset_timeout(s, t), ev, id, in)

\* log leaving the reconnection to the next call
log_giving_up(s, t, id, in) ==
    IF s.current_drain # None
        THEN IF in.cur
                THEN Return(s, <<Call("orig", s.current_drain, 0, TRUE)>>)
                ELSE Return(incr_dropped_logs([s EXCEPT !.current_drain = None]),
                            <<Call("orig", s.current_drain, 0, FALSE)>>)
        ELSE recover(s, <<>>, t, id, in)

\* log holding on to the drain that has just failed
log_keeping(s, t, id, in) ==
    IF s.current_drain # None
        THEN IF in.cur
                THEN Return(s, <<Call("orig", s.current_drain, 0, TRUE)>>)
                ELSE recover(s, <<Call("orig", s.current_drain, 0, FALSE)>>, t, id, in)
        ELSE recover(s, <<>>, t, id, in)

\* log renewing a working drain once the timeout has run out
log_renewing(s, t, id, in) ==
    IF s.current_drain # None
        THEN IF in.cur /\ ~should_try_again(s, t)
                THEN Return(s, <<Call("orig", s.current_drain, 0, TRUE)>>)
                ELSE recover([s EXCEPT !.current_drain = None],
                             <<Call("orig", s.current_drain, 0, in.cur)>>, t, id, in)
        ELSE recover(s, <<>>, t, id, in)

\* lines 74-91: the whole of Retry::log; t is the clock, id the identity of
\* the drain new_drain would build
log(s, t, id, in) ==
    IF s.current_drain # None
        THEN IF in.cur
                THEN Return(s, <<Call("orig", s.current_drain, 0, TRUE)>>)
                ELSE recover([s EXCEPT !.current_drain = None],
                             <<Call("orig", s.current_drain, 0, FALSE)>>, t, id, in)
        ELSE recover(s, <<>>, t, id, in)

\* ---- what the collaborators saw ---------------------------------------------
RECURSIVE CountCalls(_, _, _)
\* number of calls of kind op with outcome ok in ev
CountCalls(ev, op, ok) ==
    IF ev = <<>> THEN 0
    ELSE (IF Head(ev).op = op /\ Head(ev).ok = ok THEN 1 ELSE 0)
         + CountCalls(Tail(ev), op, ok)

RECURSIVE SumCounts(_)
\* sum of the count fields of the accounting records the drains accepted
SumCounts(ev) ==
    IF ev = <<>> THEN 0
    ELSE (IF Head(ev).op = "acct" /\ Head(ev).ok THEN Head(ev).count ELSE 0)
         + SumCounts(Tail(ev))

\* the call started with a failed log through the current drain (a candidate
\* drain is only used after a "new" call)
CurrentDrainFailed(ev) == ev # <<>> /\ ev[1].op = "orig" /\ ~ev[1].ok

\* number of new_drain invocations in ev
Constructions(ev) == CountCalls(ev, "new", TRUE) + CountCalls(ev, "new", FALSE)

\* the RetryState held in the RefCell (with the model's clipped flag)
State == [current_drain |-> current_drain, dropped_logs |-> dropped_logs,
          last_try_time |-> last_try_time, clipped |-> clipped]

Outcomes == [cur : BOOLEAN, new : BOOLEAN, acct : BOOLEAN, orig : BOOLEAN]

\* ---- SyslogBuilder: values ---------------------------------------------------
\* socket addresses are 1, 2, 3; 0 stands for Option::None

\* enum Destination (syslog.rs lines 325-368)
Destination_Local == [kind |-> "local", socket |-> "", local |-> None, server |-> None]
Destination_Unix(socket) == [kind |-> "unix", socket |-> socket, local |-> None, server |-> None]
Destination_Tcp(server) == [kind |-> "tcp", socket |-> "", local |-> None, server |-> server]
Destination_Udp(local, server) == [kind |-> "udp", socket |-> "", local |-> local, server |-> server]

\* deferred_error = None
NoError == [kind |-> "none", cause |-> "", host |-> ""]

\* sloggers::Error of kind k
Error(k, cause, host) == [kind |-> k, cause |-> cause, host |-> host]

\* the names handed to tcp, udp and udp_bind, and the socket paths
Hosts == {"one", "two", "none", "bad"}
Paths == {"/dev/log"}

\* ---- the state machine ------------------------------------------------------
Init ==
    /\ wrapper = "absent"
    /\ current_drain = None
    /\ dropped_logs = 0
    /\ last_try_time = 0
    /\ now = 0
    /\ ctor_count = 0
    /\ ctor_time = 0
    /\ calls = 0
    /\ received = 0
    /\ reported = 0
    /\ clipped = FALSE
    /\ log_err = FALSE
    /\ last = [op |-> "none", ret |-> "none", events |-> <<>>, before |-> State]
    /\ failed_drains = {}
    /\ borrow = FALSE
    /\ pc = [c \in Callers |-> "idle"]
    /\ healthy = FALSE
    /\ destination = Destination_Local
    /\ deferred_error = NoError
    /\ build_count = 0
    /\ build_ctor = 0
    /\ last_builder_op = [op |-> "new", lookup_error |-> NoError, ret |-> "self",
                          error |-> NoError]

\* new handing out a disconnected Retry when new_drain fails
new_lenient(ok, id, t) ==
    [built |-> TRUE, ret |-> "Ok",
     state |-> [current_drain |-> IF ok THEN id ELSE None, dropped_logs |-> 0,
                last_try_time |-> t, clipped |-> FALSE]]

\* Retry::new, lines 43-54: what is constructed when new_drain returns ok
new(ok, id, t) ==
    IF ok
        THEN [built |-> TRUE, ret |-> "Ok",
              state |-> [current_drain |-> id, dropped_logs |-> 0,
                         last_try_time |-> t, clipped |-> FALSE]]
        ELSE [built |-> FALSE, ret |-> "Err", state |-> State]

\* a caller constructs the Retry
New ==
    /\ wrapper = "absent"
    /\ \E ok \in BOOLEAN :
         LET r == new(ok, ctor_count + 1, now) IN
           /\ wrapper' = IF r.built THEN "built" ELSE "failed"
           /\ current_drain' = r.state.current_drain
           /\ dropped_logs' = r.state.dropped_logs
           /\ last_try_time' = r.state.last_try_time
           /\ clipped' = r.state.clipped
           /\ ctor_count' = ctor_count + 1
           /\ ctor_time' = now
           /\ last' = [op |-> "new", ret |-> r.ret,
                       events |-> <<Call("new", IF ok THEN ctor_count + 1 ELSE None, 0, ok)>>,
                       before |-> State]
    /\ UNCHANGED <<now, calls, received, reported, log_err, failed_drains,
                   borrow, pc, healthy>>
    /\ UNCHANGED builder_vars

\* the drains that returned an error from log in ev
FailedIn(ev) ==
    {ev[i].drain : i \in {j \in 1..Len(ev) : ev[j].op # "new" /\ ~ev[j].ok}}

\* the body of Retry::log with the collaborators' outcomes in, and what the
\* collaborators see of it
LogBody(in) ==
    LET r == log(State, now, ctor_count + 1, in) IN
      /\ current_drain' = r.state.current_drain
      /\ dropped_logs' = r.state.dropped_logs
      /\ last_try_time' = r.state.last_try_time
      /\ clipped' = r.state.clipped
      /\ ctor_count' = ctor_count + Constructions(r.events)
      /\ ctor_time' = IF Constructions(r.events) > 0 THEN now ELSE ctor_time
      /\ received' = received + CountCalls(r.events, "orig", TRUE)
      /\ reported' = reported + SumCounts(r.events)
      /\ log_err' = (log_err \/ CurrentDrainFailed(r.events))
      /\ failed_drains' = failed_drains \cup FailedIn(r.events)
      /\ last' = [op |-> "log", ret |-> r.ret, events |-> r.events,
                  before |-> State]
      /\ calls' = calls + 1

\* a caller logs one record through the Retry
Log ==
    /\ wrapper = "built"
    /\ calls < MaxCalls
    /\ \E in \in Outcomes : LogBody(in)
    /\ UNCHANGED <<wrapper, now, borrow, pc, healthy>>
    /\ UNCHANGED builder_vars

\* the clock advances
Tick ==
    /\ now + TickStep <= MaxTime
    /\ now' = now + TickStep
    /\ UNCHANGED <<wrapper, current_drain, dropped_logs, last_try_time,
                   ctor_count, ctor_time, calls, received, reported, clipped,
                   log_err, last, failed_drains, borrow, pc, healthy>>
    /\ UNCHANGED builder_vars

Next == New \/ Log \/ Tick

Spec == Init /\ [][Next]_vars

TypeOK ==
    /\ wrapper \in {"absent", "built", "failed"}
    /\ current_drain \in 0..(MaxCalls + 1)
    /\ dropped_logs \in 0..USIZE_MAX
    /\ last_try_time \in 0..MaxTime
    /\ now \in 0..MaxTime
    /\ clipped \in BOOLEAN

\* ---- properties ----------------------------------------------------------------

\* the step is a Retry::log call
LogStep == calls' = calls + 1

\* dropped_logs after one incr_dropped_logs: dropped_logs is a saturating
\* counter, one more drop adds 1 below the ceiling and stays at the ceiling
OneMoreDrop(d) == IF d < USIZE_MAX THEN d + 1 ELSE USIZE_MAX

\* C1: Retry::log never reports a failure to its caller: whatever the current
\* drain, new_drain and the candidate drain do, every log call returns Ok.
C1_LogNeverFails == last.op = "log" => last.ret = "Ok"

\* a log call in which the current drain and new_drain both failed, returning Ok
C1_Witness ==
    /\ last.op = "log"
    /\ CurrentDrainFailed(last.events)
    /\ CountCalls(last.events, "new", FALSE) = 1
    /\ last.ret = "Ok"
    /\ current_drain = None
    /\ dropped_logs = last.before.dropped_logs + 1

\* C2: Retry::new invokes new_drain exactly once.  When that call fails,
\* new fails with the error and there is no Retry to log through, ever; when
\* it succeeds the Retry starts with the drain just built, no dropped logs and
\* last_try_time at the clock reading of the construction.
C2_Construction ==
    /\ [](wrapper = "failed" =>
            /\ last.op = "new" /\ last.ret = "Err"
            /\ ctor_count = 1 /\ calls = 0
            /\ ~ENABLED Log)
    /\ [][wrapper = "absent" /\ wrapper' # "absent" =>
            /\ ctor_count = 0 /\ ctor_count' = 1
            /\ Constructions(last'.events) = 1
            /\ (last'.events[1].ok <=> wrapper' = "built")
            /\ (wrapper' = "built" =>
                  /\ last'.ret = "Ok"
                  /\ current_drain' = last'.events[1].drain
                  /\ current_drain' # None
                  /\ dropped_logs' = 0
                  /\ last_try_time' = now)]_vars

\* the construction failed some time ago: still nothing to log through
C2_Witness ==
    /\ wrapper = "failed"
    /\ last.ret = "Err"
    /\ ctor_count = 1
    /\ now >= RETRY_TIME

\* C3: as long as every log through the current drain has succeeded, the
\* Retry stays connected, dropped_logs has not grown and new_drain has been
\* invoked only by the construction.
C3_HotPath ==
    (wrapper = "built" /\ ~log_err) =>
        /\ dropped_logs = 0
        /\ ctor_count = 1
        /\ current_drain # None
        /\ received = calls

\* four records delivered, the last one after the retry interval ran out
C3_Witness ==
    /\ wrapper = "built"
    /\ ~log_err
    /\ calls = 4
    /\ received = 4
    /\ last.op = "log"
    /\ now - last_try_time >= RETRY_TIME
    /\ ctor_count = 1

\* C4: two consecutive new_drain invocations, the one of the construction
\* included and whatever their outcomes, are at least RETRY_TIME apart; a log
\* call invokes new_drain at most once, and last_try_time is the time of the
\* latest invocation.
C4_OneAttemptPerInterval ==
    /\ [](wrapper = "built" => last_try_time = ctor_time)
    /\ [][ctor_count > 0 /\ ctor_count' # ctor_count =>
            /\ ctor_count' = ctor_count + 1
            /\ now' - ctor_time >= RETRY_TIME]_vars

\* a third invocation, right after one that failed
C4_Witness ==
    /\ ctor_count >= 3
    /\ last.op = "log"
    /\ Constructions(last.events) = 1
    /\ last.before.current_drain = None
    /\ last.before.dropped_logs > 0
    /\ ctor_time = now

\* C5 as stated: after a log call in which the current drain failed, the very
\* next log call, when made less than RETRY_TIME after last_try_time, does not
\* invoke new_drain and adds one drop to dropped_logs.
C5_Original ==
    [][(/\ last.op = "log"
        /\ CurrentDrainFailed(last.events)
        /\ LogStep
        /\ now - last_try_time < RETRY_TIME) =>
            /\ ctor_count' = ctor_count
            /\ dropped_logs' = OneMoreDrop(dropped_logs)]_vars

\* C5 (amended): after a log call in which the current drain failed and which
\* left the Retry disconnected, the very next log call, when made less than
\* RETRY_TIME after last_try_time, does not invoke new_drain and adds one drop
\* to dropped_logs.
C5_NextCallInsideInterval ==
    [][(/\ last.op = "log"
        /\ CurrentDrainFailed(last.events)
        /\ current_drain = None
        /\ LogStep
        /\ now - last_try_time < RETRY_TIME) =>
            /\ ctor_count' = ctor_count
            /\ Constructions(last'.events) = 0
            /\ dropped_logs' = OneMoreDrop(dropped_logs)]_vars

\* the drain built by the construction failed inside the retry interval, and
\* the next call was made inside it too: two drops, no second new_drain call
C5_Witness ==
    /\ calls = 2
    /\ received = 0
    /\ ctor_count = 1
    /\ last.op = "log"
    /\ last.events = <<>>
    /\ last.before.dropped_logs = 1
    /\ dropped_logs = 2
    /\ now - last_try_time < RETRY_TIME

\* C6: a log call that finds no usable drain (none on entry, or the current
\* one fails) at least RETRY_TIME after last_try_time invokes new_drain
\* exactly once; when new_drain fails, dropped_logs gets one more drop and
\* current_drain stays None.
C6_RetryAfterInterval ==
    [][(/\ wrapper = "built"
        /\ LogStep
        /\ now - last_try_time >= RETRY_TIME
        /\ (current_drain = None \/ CurrentDrainFailed(last'.events))) =>
            /\ Constructions(last'.events) = 1
            /\ ctor_count' = ctor_count + 1
            /\ (CountCalls(last'.events, "new", FALSE) = 1 =>
                  /\ dropped_logs' = OneMoreDrop(dropped_logs)
                  /\ current_drain' = None)]_vars

\* a disconnected Retry tried new_drain, which failed: one more drop
C6_Witness ==
    /\ last.op = "log"
    /\ last.before.current_drain = None
    /\ last.before.dropped_logs = 1
    /\ last.events = <<Call("new", None, 0, FALSE)>>
    /\ dropped_logs = 2
    /\ current_drain = None

\* C7: when new_drain succeeds while dropped_logs = k > 0, exactly one
\* accounting record is sent, it carries count = k, goes to the new drain and
\* comes before the original record; when both are accepted, the call ends
\* with dropped_logs = 0 and the new drain as current_drain.
C7_AccountingFirst ==
    (/\ last.op = "log"
     /\ CountCalls(last.events, "new", TRUE) = 1
     /\ last.before.dropped_logs > 0) =>
        LET ev == last.events
            i == CHOOSE j \in 1..Len(ev) : ev[j].op = "new"
            k == last.before.dropped_logs
        IN  /\ Len(ev) > i
            /\ ev[i + 1] = Call("acct", ev[i].drain, k, ev[i + 1].ok)
            /\ CountCalls(ev, "acct", TRUE) + CountCalls(ev, "acct", FALSE) = 1
            /\ \A j \in 1..Len(ev) :
                 (ev[j].op = "orig" /\ ev[j].drain = ev[i].drain) => j = i + 2
            /\ (ev[i + 1].ok =>
                  /\ Len(ev) = i + 2
                  /\ ev[i + 2].op = "orig"
                  /\ ev[i + 2].drain = ev[i].drain
                  /\ (ev[i + 2].ok =>
                        /\ dropped_logs = 0
                        /\ current_drain = ev[i].drain))

\* two drops reported through a new drain that then took the original record
C7_Witness ==
    /\ last.op = "log"
    /\ last.before.dropped_logs = 2
    /\ CountCalls(last.events, "new", TRUE) = 1
    /\ SumCounts(last.events) = 2
    /\ CountCalls(last.events, "orig", TRUE) = 1
    /\ dropped_logs = 0
    /\ current_drain = ctor_count

\* C8: when the new drain refuses the accounting record, nothing more is sent
\* to it (the original record is not tried), dropped_logs is not reset but
\* gets one more drop, and current_drain stays None.
C8_AccountingRefused ==
    (last.op = "log" /\ CountCalls(last.events, "acct", FALSE) = 1) =>
        LET ev == last.events
            n == Len(ev)
        IN  /\ n >= 2
            /\ ev[n].op = "acct" /\ ~ev[n].ok
            /\ ev[n - 1] = Call("new", ev[n].drain, 0, TRUE)
            /\ ev[n].count = last.before.dropped_logs
            /\ dropped_logs = OneMoreDrop(last.before.dropped_logs)
            /\ dropped_logs # 0
            /\ current_drain = None

\* one drop was to be reported, the new drain refused the report: two drops
C8_Witness ==
    /\ last.op = "log"
    /\ CountCalls(last.events, "acct", FALSE) = 1
    /\ last.before.dropped_logs = 1
    /\ dropped_logs = 2
    /\ current_drain = None

\* C9: as long as dropped_logs has not been cut off at its ceiling, the number
\* of log calls whose record no drain accepted equals the sum of the counts of
\* the accepted accounting records plus dropped_logs; every log call either
\* has its record accepted by exactly one drain, and counts no drop, or has it
\* accepted by none, and counts exactly one.
C9_ExactAccounting ==
    /\ [](~clipped => calls - received = reported + dropped_logs)
    /\ [][(LogStep /\ ~clipped') =>
            LET accepted == CountCalls(last'.events, "orig", TRUE)
                counted == (dropped_logs' + SumCounts(last'.events)) - dropped_logs
            IN  \/ accepted = 1 /\ counted = 0
                \/ accepted = 0 /\ counted = 1]_vars

\* drops were reported, the record sent after the report was lost and counted
C9_Witness ==
    /\ ~clipped
    /\ reported >= 2
    /\ dropped_logs >= 1
    /\ received >= 1
    /\ calls - received = reported + dropped_logs

\* C10: dropped_logs only goes down inside a log call, right after a drain
\* just built by new_drain accepted the accounting record carrying its value:
\* it is then reset to 0 (and is 1 at the end of the call when the original
\* record is lost after that).  No other step lowers it.
C10_ResetOnlyAfterReport ==
    [][dropped_logs' < dropped_logs =>
         /\ LogStep
         /\ LET ev == last'.events IN
              \E i \in 1..(Len(ev) - 1) :
                 /\ ev[i].op = "new" /\ ev[i].ok
                 /\ ev[i + 1] = Call("acct", ev[i].drain, dropped_logs, TRUE)
                 /\ dropped_logs' =
                      IF Len(ev) > i + 1 /\ ev[i + 2].ok THEN 0 ELSE 1]_vars

\* the report of two drops went through, the original record did not
C10_Witness ==
    /\ last.op = "log"
    /\ last.before.dropped_logs = 2
    /\ CountCalls(last.events, "acct", TRUE) = 1
    /\ CountCalls(last.events, "orig", TRUE) = 0
    /\ dropped_logs = 1
    /\ current_drain = None

\* C11: between log calls current_drain is never a drain that has returned an
\* error: no log is ever sent to a drain that failed before, a drain that
\* fails gets nothing more in the same call and is not current_drain when the
\* call returns, and every drain a call uses is the current one or the one
\* new_drain has just built in that call.
C11_FailedDrainDiscarded ==
    /\ [](current_drain # None => current_drain \notin failed_drains)
    /\ [][LogStep =>
            LET ev == last'.events IN
              \A i \in 1..Len(ev) :
                 ev[i].op # "new" =>
                    /\ ev[i].drain \notin failed_drains
                    /\ \/ ev[i].drain = current_drain /\ i = 1
                       \/ \E j \in 1..(i - 1) :
                             ev[j] = Call("new", ev[i].drain, 0, TRUE)
                    /\ (~ev[i].ok =>
                          /\ \A j \in (i + 1)..Len(ev) : ev[j].drain # ev[i].drain
                          /\ current_drain' # ev[i].drain)]_vars

\* the current drain failed inside the retry interval: it is gone, and so is
\* the drain of an earlier reconnection
C11_Witness ==
    /\ last.op = "log"
    /\ CurrentDrainFailed(last.events)
    /\ Len(last.events) = 1
    /\ last.before.current_drain = 2
    /\ failed_drains = {1, 2}
    /\ current_drain = None

\* C12: dropped_logs saturates: a drop counted while dropped_logs is at the
\* maximum of its type leaves it there, it never wraps to 0 or to anything
\* smaller, and below the maximum a drop adds exactly 1.
C12_Saturating ==
    [][(/\ LogStep
        /\ CountCalls(last'.events, "orig", TRUE) = 0
        /\ CountCalls(last'.events, "acct", TRUE) = 0) =>
            /\ (dropped_logs = USIZE_MAX => dropped_logs' = USIZE_MAX)
            /\ (dropped_logs < USIZE_MAX => dropped_logs' = dropped_logs + 1)]_vars

\* a record dropped while dropped_logs was at the maximum already
C12_Witness ==
    /\ last.op = "log"
    /\ last.before.dropped_logs = USIZE_MAX
    /\ CountCalls(last.events, "orig", TRUE) = 0
    /\ CountCalls(last.events, "acct", TRUE) = 0
    /\ dropped_logs = USIZE_MAX
    /\ clipped

\* ---- callers overlapping in Retry::log ------------------------------------------
\* Retry keeps its state in a RefCell (line 38) and log borrows it mutably for
\* the whole call (line 79).  Retry is therefore not Sync: an overlapping call
\* can only come from the thread that is already inside log.

\* a borrow that does not look at the borrow flag
borrow_mut_unchecked(b) == [ok |-> TRUE, flag |-> TRUE]

\* RefCell::borrow_mut: panics when the value is borrowed already
borrow_mut(b) == [ok |-> ~b, flag |-> TRUE]

\* line 79: caller c enters log and borrows the state
Enter(c) ==
    /\ wrapper = "built"
    /\ calls < MaxCalls
    /\ pc[c] = "idle"
    /\ LET r == borrow_mut(borrow) IN
         IF r.ok
            THEN /\ borrow' = r.flag
                 /\ pc' = [pc EXCEPT ![c] = "borrowed"]
            ELSE /\ borrow' = borrow
                 /\ pc' = [pc EXCEPT ![c] = "panicked"]
    /\ UNCHANGED <<wrapper, current_drain, dropped_logs, last_try_time, now,
                   ctor_count, ctor_time, calls, received, reported, clipped,
                   log_err, last, failed_drains, healthy>>
    /\ UNCHANGED builder_vars

\* lines 81-143: caller c runs the body of log on the borrowed state
Run(c) ==
    /\ pc[c] = "borrowed"
    /\ \E in \in Outcomes : LogBody(in)
    /\ pc' = [pc EXCEPT ![c] = "returning"]
    /\ UNCHANGED <<wrapper, now, borrow, healthy>>
    /\ UNCHANGED builder_vars

\* the return of log: the RefMut goes out of scope, the borrow ends
Leave(c) ==
    /\ pc[c] = "returning"
    /\ borrow' = FALSE
    /\ pc' = [pc EXCEPT ![c] = "idle"]
    /\ UNCHANGED <<wrapper, current_drain, dropped_logs, last_try_time, now,
                   ctor_count, ctor_time, calls, received, reported, clipped,
                   log_err, last, failed_drains, healthy>>
    /\ UNCHANGED builder_vars

ConcNext ==
    \/ New
    \/ Tick
    \/ \E c \in Callers : Enter(c)
    \/ \E c \in Callers : Run(c)
    \/ \E c \in Callers : Leave(c)

SpecConc == Init /\ [][ConcNext]_vars

\* the callers that hold the borrow
Inside == {c \in Callers : pc[c] \in {"borrowed", "returning"}}

\* C13 as stated: every log call has the state to itself for its whole
\* duration, so calls never overlap, and a caller that arrives while another
\* call is in progress waits rather than fails.
C13_Original ==
    /\ [](Cardinality(Inside) <= 1)
    /\ [](\A c \in Callers : pc[c] # "panicked")

\* C13 (amended): every log call has the state to itself for its whole
\* duration: at most one caller is inside log, the state is borrowed exactly
\* while one is, and only that caller changes the state.  A caller that
\* arrives while another call is in progress does not wait: it fails at once
\* (borrow_mut panics) and touches nothing.
C13_Exclusive ==
    /\ [](Cardinality(Inside) <= 1)
    /\ [](borrow <=> Inside # {})
    /\ [][State' # State =>
            \/ wrapper = "absent"
            \/ \E c \in Callers : Inside = {c} /\ pc'[c] = "returning"]_vars
    /\ [][\A c \in Callers :
            (pc[c] = "idle" /\ pc'[c] # "idle") =>
                IF borrow
                    THEN pc'[c] = "panicked" /\ State' = State /\ last' = last
                    ELSE pc'[c] = "borrowed" /\ Inside' = {c}]_vars

\* a caller arrived while another one was reconnecting, and panicked
C13_Witness ==
    \E c, d \in Callers :
        /\ pc[c] = "panicked"
        /\ pc[d] = "returning"
        /\ borrow
        /\ last.op = "log"
        /\ CountCalls(last.events, "new", TRUE) = 1

\* ---- a Retry that is used for ever ------------------------------------------------
\* The same Retry with no end to the calls and to the clock.  Only differences
\* of clock readings matter to log, so once the clock has reached MaxTime a
\* tick moves last_try_time back instead of moving now forward.  The counters
\* kept for the collaborators stand still, and a new drain gets whichever of
\* the identities 1 and 2 the current drain does not have.

\* every call on a drain and on new_drain succeeds
AllOk == [cur |-> TRUE, new |-> TRUE, acct |-> TRUE, orig |-> TRUE]

\* a caller logs one record; once healthy, nothing fails any more
LiveLog ==
    /\ wrapper = "built"
    /\ \E in \in (IF healthy THEN {AllOk} ELSE Outcomes) :
         LET r == log(State, now, IF current_drain = 1 THEN 2 ELSE 1, in) IN
           /\ current_drain' = r.state.current_drain
           /\ dropped_logs' = r.state.dropped_logs
           /\ last_try_time' = r.state.last_try_time
           /\ clipped' = r.state.clipped
           /\ last' = [op |-> "log", ret |-> r.ret, events |-> r.events,
                       before |-> State]
    /\ UNCHANGED <<wrapper, now, ctor_count, ctor_time, calls, received,
                   reported, log_err, failed_drains, borrow, pc, healthy>>
    /\ UNCHANGED builder_vars

\* the clock advances
LiveTick ==
    /\ IF now + TickStep <= MaxTime
          THEN /\ now' = now + TickStep
               /\ last_try_time' = last_try_time
          ELSE /\ now' = now
               /\ last_try_time' = IF last_try_time >= TickStep
                                      THEN last_try_time - TickStep ELSE 0
    /\ UNCHANGED <<wrapper, current_drain, dropped_logs, ctor_count, ctor_time,
                   calls, received, reported, clipped, log_err, last,
                   failed_drains, borrow, pc, healthy>>
    /\ UNCHANGED builder_vars

\* the log service comes back for good
Heal ==
    /\ ~healthy
    /\ healthy' = TRUE
    /\ UNCHANGED <<wrapper, current_drain, dropped_logs, last_try_time, now,
                   ctor_count, ctor_time, calls, received, reported, clipped,
                   log_err, last, failed_drains, borrow, pc>>
    /\ UNCHANGED builder_vars

LiveNext == New \/ LiveLog \/ LiveTick \/ Heal

\* log keeps being called and the clock keeps advancing
SpecLive == Init /\ [][LiveNext]_vars /\ WF_vars(LiveLog) /\ WF_vars(LiveTick)

\* C14: the Retry never gives up: when log keeps being called while time
\* advances and, from some point on, new_drain and the drains no longer fail,
\* the Retry is eventually connected again with dropped_logs = 0, and from
\* then on it stays connected and every record is delivered by the current
\* drain.
C14_NeverGivesUp ==
    /\ (healthy /\ wrapper = "built") ~> (current_drain # None /\ dropped_logs = 0)
    /\ [][(healthy /\ current_drain # None) =>
            /\ current_drain' = current_drain
            /\ dropped_logs' = 0
            /\ (last' # last =>
                  last'.events = <<Call("orig", current_drain, 0, TRUE)>>)]_vars

\* after the service came back a reconnection reported the drops
C14_Witness ==
    /\ healthy
    /\ last.op = "log"
    /\ last.before.current_drain = None
    /\ last.before.dropped_logs = USIZE_MAX
    /\ SumCounts(last.events) = USIZE_MAX
    /\ CountCalls(last.events, "orig", TRUE) = 1
    /\ current_drain # None
    /\ dropped_logs = 0

\* C15: when the new drain accepted the accounting record and then refuses
\* the original record, the new drain is not kept (current_drain stays None),
\* the reset of dropped_logs stands and the lost record is counted, so the
\* call ends with dropped_logs = 1; the same refusal with dropped_logs = 0 at
\* the new_drain call ends with dropped_logs = 1 too.
C15_OriginalRefused ==
    (/\ last.op = "log"
     /\ CountCalls(last.events, "new", TRUE) = 1
     /\ ~last.events[Len(last.events)].ok
     /\ last.events[Len(last.events)].op = "orig") =>
        LET ev == last.events
            n == Len(ev)
        IN  /\ \/ /\ last.before.dropped_logs > 0
                  /\ n >= 3
                  /\ ev[n - 1] = Call("acct", ev[n].drain, last.before.dropped_logs, TRUE)
                  /\ ev[n - 2] = Call("new", ev[n].drain, 0, TRUE)
               \/ /\ last.before.dropped_logs = 0
                  /\ n >= 2
                  /\ ev[n - 1] = Call("new", ev[n].drain, 0, TRUE)
            /\ dropped_logs = 1
            /\ current_drain = None
            /\ ev[n].drain \in failed_drains

\* one drop reported, then the original record refused: one drop again
C15_Witness ==
    /\ last.op = "log"
    /\ last.before.dropped_logs = 1
    /\ SumCounts(last.events) = 1
    /\ CountCalls(last.events, "orig", TRUE) = 0
    /\ ~last.events[Len(last.events)].ok
    /\ dropped_logs = 1
    /\ current_drain = None

\* C16: a log call made while disconnected and less than RETRY_TIME after
\* last_try_time calls neither a drain nor new_drain and changes nothing but
\* dropped_logs, which gets one more drop: current_drain and last_try_time
\* are as before.
C16_DropInsideInterval ==
    [][(/\ LogStep
        /\ current_drain = None
        /\ now - last_try_time < RETRY_TIME) =>
            /\ last'.events = <<>>
            /\ ctor_count' = ctor_count
            /\ dropped_logs' = OneMoreDrop(dropped_logs)
            /\ current_drain' = None
            /\ last_try_time' = last_try_time
            /\ wrapper' = wrapper]_vars

\* the third record in a row dropped inside the interval, some time into it
C16_Witness ==
    /\ last.op = "log"
    /\ last.before.current_drain = None
    /\ last.events = <<>>
    /\ last.before.dropped_logs = 2
    /\ dropped_logs = 3
    /\ now > last_try_time
    /\ now - last_try_time < RETRY_TIME

\* C17: when the current drain fails at least RETRY_TIME after last_try_time,
\* the same log call reconnects: it invokes new_drain exactly once, and when
\* new_drain and the new drain's log succeed, the record that the old drain
\* refused is delivered by the new drain and is not counted as dropped.  No
\* log call invokes new_drain more than once.
C17_ReconnectInSameCall ==
    /\ [][LogStep => Constructions(last'.events) <= 1]_vars
    /\ [][(/\ LogStep
           /\ current_drain # None
           /\ CurrentDrainFailed(last'.events)
           /\ now - last_try_time >= RETRY_TIME) =>
              LET ev == last'.events IN
                /\ Constructions(ev) = 1
                /\ ctor_count' = ctor_count + 1
                /\ ev[2].op = "new"
                /\ ((\A i \in 2..Len(ev) : ev[i].ok) =>
                      /\ ev[Len(ev)] = Call("orig", ev[2].drain, 0, TRUE)
                      /\ ev[2].drain # current_drain
                      /\ current_drain' = ev[2].drain
                      /\ received' = received + 1
                      /\ dropped_logs' = dropped_logs
                      /\ reported' + dropped_logs' = reported + dropped_logs)]_vars

\* the first record ever logged: refused by the drain of the construction,
\* accepted by a drain built in the same call
C17_Witness ==
    /\ calls = 1
    /\ received = 1
    /\ ctor_count = 2
    /\ last.events = <<Call("orig", 1, 0, FALSE), Call("new", 2, 0, TRUE),
                       Call("orig", 2, 0, TRUE)>>
    /\ current_drain = 2
    /\ dropped_logs = 0

\* C18: an accounting record is sent exactly when dropped_logs is not 0 at
\* the moment new_drain succeeds: with dropped_logs = 0 the only record the
\* new drain gets in that call is the original one, and no drain ever gets an
\* accounting record with count = 0.
C18_AccountingOnlyForDrops ==
    last.op = "log" =>
        LET ev == last.events IN
          /\ \A i \in 1..Len(ev) : ev[i].op = "acct" => ev[i].count # 0
          /\ (CountCalls(ev, "new", TRUE) = 0 =>
                CountCalls(ev, "acct", TRUE) + CountCalls(ev, "acct", FALSE) = 0)
          /\ (CountCalls(ev, "new", TRUE) = 1 =>
                LET i == CHOOSE j \in 1..Len(ev) : ev[j].op = "new" IN
                  IF last.before.dropped_logs # 0
                     THEN /\ Len(ev) > i
                          /\ ev[i + 1].op = "acct"
                          /\ ev[i + 1].drain = ev[i].drain
                     ELSE /\ Len(ev) = i + 1
                          /\ ev[i + 1].op = "orig"
                          /\ ev[i + 1].drain = ev[i].drain)

\* a reconnection with nothing to report, in a Retry that has reported before
C18_Witness ==
    /\ last.op = "log"
    /\ last.before.dropped_logs = 0
    /\ reported > 0
    /\ CountCalls(last.events, "new", TRUE) = 1
    /\ CountCalls(last.events, "acct", TRUE) + CountCalls(last.events, "acct", FALSE) = 0
    /\ last.events[Len(last.events)].op = "orig"

\* C19: the retry interval is fixed at 50 ms: however many reconnections have
\* failed, a log call made while disconnected at least RETRY_TIME after
\* last_try_time invokes new_drain; the wait does not grow.
C19_FixedInterval ==
    /\ [](RETRY_TIME = 50)
    /\ [][(/\ LogStep
           /\ current_drain = None
           /\ now - last_try_time >= RETRY_TIME) =>
              /\ Constructions(last'.events) = 1
              /\ last_try_time' = now]_vars

\* a third reconnection in a row without a record delivered, tried less than
\* two intervals after the second
C19_Witness ==
    /\ calls >= 3
    /\ received = 0
    /\ ctor_count = 4
    /\ last.op = "log"
    /\ last.before.current_drain = None
    /\ last.before.dropped_logs >= 2
    /\ Constructions(last.events) = 1
    /\ last_try_time - last.before.last_try_time >= RETRY_TIME
    /\ last_try_time - last.before.last_try_time < 2 * RETRY_TIME

\* C20: between log calls, a connected Retry has dropped_logs = 0: a new
\* drain is kept only after the drops were reported and the counter reset,
\* and nothing is counted while a drain is held.
C20_ConnectedMeansNoDrops ==
    (wrapper = "built" /\ current_drain # None) => dropped_logs = 0

\* connected again after drops that were cut off at the ceiling
C20_Witness ==
    /\ wrapper = "built"
    /\ current_drain # None
    /\ dropped_logs = 0
    /\ clipped
    /\ reported >= USIZE_MAX
    /\ last.op = "log"
    /\ last.before.current_drain = None

\* ---- SyslogBuilder ------------------------------------------------------------------

\* ToSocketAddrs::to_socket_addrs as the resolver answers it: "two" has two
\* addresses, "one" has one, "none" resolves to no address, "bad" fails
to_socket_addrs(host) ==
    CASE host = "two" -> [ok |-> TRUE, addrs |-> <<1, 2>>]
      [] host = "one" -> [ok |-> TRUE, addrs |-> <<3>>]
      [] host = "none" -> [ok |-> TRUE, addrs |-> <<>>]
      [] OTHER -> [ok |-> FALSE, addrs |-> <<>>]

\* lookup_one_addr, syslog.rs lines 376-384
lookup_one_addr(host) ==
    LET r == to_socket_addrs(host) IN
      IF r.ok
         THEN IF r.addrs # <<>>
                 THEN [ok |-> TRUE, value |-> Head(r.addrs), error |-> NoError]
                 ELSE [ok |-> FALSE, value |-> None,
                       error |-> Error("ServerLookup", "no addresses found", host)]
         ELSE [ok |-> FALSE, value |-> None,
               error |-> Error("ServerLookup", "lookup failed", host)]

\* the builder's fields the destination methods work on
Builder == [destination |-> destination, deferred_error |-> deferred_error]

\* defer_error forgetting an earlier error when a lookup succeeds
defer_error_clearing(b, result) ==
    IF result.ok
        THEN [b |-> [b EXCEPT !.deferred_error = NoError], some |-> TRUE,
              value |-> result.value]
        ELSE [b |-> [b EXCEPT !.deferred_error = result.error], some |-> FALSE,
              value |-> None]

\* SyslogBuilder::defer_error, lines 85-93
defer_error(b, result) ==
    IF result.ok
        THEN [b |-> b, some |-> TRUE, value |-> result.value]
        ELSE [b |-> [b EXCEPT !.deferred_error = result.error], some |-> FALSE,
              value |-> None]

\* SyslogBuilder::destination, lines 130-133
set_destination(b, d) == [b EXCEPT !.destination = d]

\* SyslogBuilder::unix, lines 136-138
unix(b, socket) == set_destination(b, Destination_Unix(socket))

\* SyslogBuilder::tcp, lines 145-150
tcp(b, server) ==
    LET r == defer_error(b, lookup_one_addr(server)) IN
      IF r.some THEN set_destination(r.b, Destination_Tcp(r.value)) ELSE r.b

\* SyslogBuilder::udp_bind, lines 157-169
udp_bind(b, local, server) ==
    LET l == defer_error(b, lookup_one_addr(local)) IN
      IF ~l.some THEN l.b
      ELSE LET r == defer_error(l.b, lookup_one_addr(server)) IN
             IF ~r.some THEN r.b
             ELSE set_destination(r.b, Destination_Udp(l.value, r.value))

\* SyslogBuilder::udp, lines 176-183
udp(b, server) ==
    LET r == defer_error(b, lookup_one_addr(server)) IN
      IF ~r.some THEN r.b
      ELSE set_destination(r.b, Destination_Udp(None, r.value))

\* SyslogBuilder::build, lines 249-308: ok is whether the drain can be
\* constructed; ctor counts the constructions Retry::new starts
build(b, ok) ==
    IF b.deferred_error # NoError
        THEN [ret |-> "Err", error |-> b.deferred_error, ctor |-> 0]
        ELSE IF new(ok, 1, now).built
                THEN [ret |-> "Ok", error |-> NoError, ctor |-> 1]
                ELSE [ret |-> "Err", ctor |-> 1,
                      error |-> Error("ServerConnect", "new_drain failed", "")]

\* the error of the first lookup that fails among hosts, NoError if none does
FirstLookupError(hosts) ==
    LET bad == {i \in 1..Len(hosts) : ~lookup_one_addr(hosts[i]).ok} IN
      IF bad = {} THEN NoError
      ELSE lookup_one_addr(hosts[CHOOSE i \in bad : \A j \in bad : i <= j]).error

\* a destination method has been called: b is the builder it leaves
BuilderCall(op, hosts, b) ==
    /\ destination' = b.destination
    /\ deferred_error' = b.deferred_error
    /\ last_builder_op' = [op |-> op, lookup_error |-> FirstLookupError(hosts),
                           ret |-> "self", error |-> NoError]
    /\ UNCHANGED <<build_count, build_ctor>>
    /\ UNCHANGED retry_vars

CallDestination ==
    \E d \in {Destination_Local, Destination_Tcp(1)} :
        BuilderCall("destination", <<>>, set_destination(Builder, d))

CallUnix == \E p \in Paths : BuilderCall("unix", <<>>, unix(Builder, p))

CallTcp == \E h \in Hosts : BuilderCall("tcp", <<h>>, tcp(Builder, h))

CallUdpBind ==
    \E l, h \in Hosts : BuilderCall("udp_bind", <<l, h>>, udp_bind(Builder, l, h))

CallUdp == \E h \in Hosts : BuilderCall("udp", <<h>>, udp(Builder, h))

Build ==
    /\ build_count < MaxBuilds
    /\ \E ok \in BOOLEAN :
         LET r == build(Builder, ok) IN
           /\ build_ctor' = build_ctor + r.ctor
           /\ last_builder_op' = [op |-> "build", lookup_error |-> NoError,
                                  ret |-> r.ret, error |-> r.error]
    /\ build_count' = build_count + 1
    /\ UNCHANGED <<destination, deferred_error>>
    /\ UNCHANGED retry_vars

BuilderNext ==
    CallDestination \/ CallUnix \/ CallTcp \/ CallUdpBind \/ CallUdp \/ Build

SpecBuilder == Init /\ [][BuilderNext]_vars

\* C21: a lookup failure in tcp, udp or udp_bind is recorded in
\* deferred_error and leaves the destination as it was; from then on every
\* build returns the recorded error without constructing a drain, also after
\* later calls that set a valid destination: deferred_error is never cleared,
\* only replaced by the error of a later failed lookup.
C21_DeferredError ==
    /\ [][last_builder_op'.lookup_error # NoError =>
            /\ last_builder_op'.op \in {"tcp", "udp", "udp_bind"}
            /\ deferred_error' = last_builder_op'.lookup_error
            /\ destination' = destination]_vars
    /\ [][deferred_error # NoError =>
            /\ deferred_error' # NoError
            /\ (deferred_error' # deferred_error =>
                  deferred_error' = last_builder_op'.lookup_error)]_vars
    /\ [][(build_count' # build_count /\ deferred_error # NoError) =>
            /\ last_builder_op'.ret = "Err"
            /\ last_builder_op'.error = deferred_error
            /\ build_ctor' = build_ctor]_vars

\* "bad" could not be looked up, a valid tcp destination was set afterwards,
\* and build still returns the lookup error, without constructing a drain
C21_Witness ==
    /\ deferred_error = Error("ServerLookup", "lookup failed", "bad")
    /\ destination = Destination_Tcp(3)
    /\ last_builder_op.op = "build"
    /\ last_builder_op.ret = "Err"
    /\ last_builder_op.error = deferred_error
    /\ build_count = 2
    /\ build_ctor = 0

\* ---- the Retry under its test helpers -----------------------------------------------
\* fudge_timeout_long (cfg(test)) moves last_try_time into the future of the
\* clock.

\* Retry::fudge_timeout_long, lines 57-60
fudge_timeout_long(s, t) == [s EXCEPT !.last_try_time = t + FUDGE_LONG - RETRY_TIME]

\* the test moves the timeout, once as long as it has not run out
FudgeLong ==
    /\ wrapper = "built"
    /\ last_try_time <= now
    /\ last_try_time' = fudge_timeout_long(State, now).last_try_time
    /\ UNCHANGED <<wrapper, current_drain, dropped_logs, now, ctor_count,
                   ctor_time, calls, received, reported, clipped, log_err, last,
                   failed_drains, borrow, pc, healthy>>
    /\ UNCHANGED builder_vars

\* the clock advances, in the first MaxTime ms and in those after the pause
FudgeTick ==
    /\ now + TickStep <= (IF now > MaxTime THEN FUDGE_LONG + MaxTime ELSE MaxTime)
    /\ now' = now + TickStep
    /\ UNCHANGED <<wrapper, current_drain, dropped_logs, last_try_time,
                   ctor_count, ctor_time, calls, received, reported, clipped,
                   log_err, last, failed_drains, borrow, pc, healthy>>
    /\ UNCHANGED builder_vars

\* a pause of a little less than the hour, to wait for the moved timeout
Pause ==
    /\ now <= MaxTime
    /\ last_try_time > now
    /\ now' = now + FUDGE_LONG - 2 * RETRY_TIME
    /\ UNCHANGED <<wrapper, current_drain, dropped_logs, last_try_time,
                   ctor_count, ctor_time, calls, received, reported, clipped,
                   log_err, last, failed_drains, borrow, pc, healthy>>
    /\ UNCHANGED builder_vars

\* a caller logs one record through the Retry
FudgeLog == calls < MaxFudgedCalls /\ Log

FudgeNext == New \/ FudgeLog \/ FudgeTick \/ Pause \/ FudgeLong

SpecFudge == Init /\ [][FudgeNext]_vars

\* C22: the elapsed time saturates at zero: while last_try_time is later than
\* the clock the elapsed time counts as 0 and should_try_again answers false;
\* a log call made before the clock has reached last_try_time + RETRY_TIME
\* leaves last_try_time alone and does not invoke new_drain; last_try_time
\* changes in a log call only when should_try_again answers true, and then
\* becomes the clock reading.
C22_ElapsedSaturatesAtZero ==
    /\ [](last_try_time > now =>
            /\ saturating_duration_since(now, last_try_time) = 0
            /\ ~should_try_again(State, now))
    /\ [][(LogStep /\ now < last_try_time + RETRY_TIME) =>
            /\ Constructions(last'.events) = 0
            /\ ctor_count' = ctor_count
            /\ last_try_time' = last_try_time
            /\ (CountCalls(last'.events, "orig", TRUE) = 0 =>
                  dropped_logs' = OneMoreDrop(dropped_logs))]_vars
    /\ [][(LogStep /\ last_try_time' # last_try_time) =>
            /\ should_try_again(State, now)
            /\ last_try_time' = now
            /\ Constructions(last'.events) = 1]_vars

\* after fudge_timeout_long the drain failed and a record was dropped while
\* last_try_time was ahead of the clock, far more than RETRY_TIME ahead
C22_Witness ==
    /\ last.op = "log"
    /\ last.before.last_try_time > now + RETRY_TIME
    /\ last_try_time = last.before.last_try_time
    /\ CurrentDrainFailed(last.events)
    /\ Len(last.events) = 1
    /\ current_drain = None
    /\ dropped_logs = 1
    /\ ctor_count = 1

====
